---- MODULE Spec2Model ----
(***************************************************************************)
(* A model of the RESP decoder of src/src/deserializer.rs.                 *)
(*                                                                         *)
(* The decoder is a recursive-descent parser over a byte source that is    *)
(* read one byte at a time (peek_byte).  The Rust call stack is the        *)
(* variable `stack` (one frame per active function call, the innermost     *)
(* call last), the position of the source is `pos`, and the value          *)
(* from_stream returns is `result`.  One action is one call of peek_byte   *)
(* together with everything the code does up to the next call of           *)
(* peek_byte: the calls it enters, the returns it makes, the `?` that      *)
(* ends the whole call.                                                    *)
(*                                                                         *)
(* Bytes are the numbers 0..255; a Rust String is the sequence of its      *)
(* UTF-8 bytes; an i64 is a sign and a decimal magnitude (TLC's integers   *)
(* are 32 bits wide, the i64 range is not).                                *)
(***************************************************************************)
EXTENDS Integers, Sequences, FiniteSets

VARIABLES src, entry, pos, stack, result

vars == <<src, entry, pos, stack, result>>

-----------------------------------------------------------------------------
(* Bytes the code names. *)

CR == 13
LF == 10
PLUS == 43
MINUS == 45
COLON == 58
DOLLAR == 36
STAR == 42
ZERO == 48

Digits == ZERO .. (ZERO + 9)

-----------------------------------------------------------------------------
(* Error and Value, result::Result. *)

EndOfStream == [kind |-> "EndOfStream", detail |-> <<>>]
IoError == [kind |-> "IoError", detail |-> <<>>]
InvalidValue(msg, arg) == [kind |-> "InvalidValue", detail |-> <<msg, arg>>]

VString(t) == [variant |-> "String", payload |-> t]
VError(t) == [variant |-> "Error", payload |-> t]
VInteger(n) == [variant |-> "Integer", payload |-> n]
VBulkString(b) == [variant |-> "BulkString", payload |-> b]
VArray(vs) == [variant |-> "Array", payload |-> vs]

NoResult == [tag |-> "none"]
Ok(v) == [tag |-> "Ok", val |-> v]
Err(e) == [tag |-> "Err", err |-> e]

-----------------------------------------------------------------------------
(* String::from_utf8: whether a byte sequence is well-formed UTF-8. *)

RECURSIVE Utf8From(_, _)
Utf8From(bs, i) ==
  IF i > Len(bs) THEN TRUE
  ELSE LET b == bs[i]
           In(j, lo, hi) == j <= Len(bs) /\ bs[j] \in lo .. hi
           Cont(j) == In(j, 128, 191)
       IN  CASE b <= 127 -> Utf8From(bs, i + 1)
             [] b \in 194 .. 223 -> Cont(i + 1) /\ Utf8From(bs, i + 2)
             [] b = 224 -> In(i + 1, 160, 191) /\ Cont(i + 2) /\ Utf8From(bs, i + 3)
             [] b \in 225 .. 236 \/ b \in 238 .. 239 ->
                  Cont(i + 1) /\ Cont(i + 2) /\ Utf8From(bs, i + 3)
             [] b = 237 -> In(i + 1, 128, 159) /\ Cont(i + 2) /\ Utf8From(bs, i + 3)
             [] b = 240 ->
                  In(i + 1, 144, 191) /\ Cont(i + 2) /\ Cont(i + 3) /\ Utf8From(bs, i + 4)
             [] b \in 241 .. 243 ->
                  Cont(i + 1) /\ Cont(i + 2) /\ Cont(i + 3) /\ Utf8From(bs, i + 4)
             [] b = 244 ->
                  In(i + 1, 128, 143) /\ Cont(i + 2) /\ Cont(i + 3) /\ Utf8From(bs, i + 4)
             [] OTHER -> FALSE

from_utf8(bs) == Utf8From(bs, 1)

-----------------------------------------------------------------------------
(* str::parse::<i64>.  An i64 is [neg, mag]: mag its decimal digits without *)
(* leading zeros, neg whether it is below zero.                             *)

I64MaxDigits == <<9, 2, 2, 3, 3, 7, 2, 0, 3, 6, 8, 5, 4, 7, 7, 5, 8, 0, 7>>
I64MinDigits == <<9, 2, 2, 3, 3, 7, 2, 0, 3, 6, 8, 5, 4, 7, 7, 5, 8, 0, 8>>

I64(neg, mag) == [neg |-> neg, mag |-> mag]

RECURSIVE StripZeros(_)
StripZeros(ds) ==
  IF Len(ds) > 1 /\ ds[1] = 0 THEN StripZeros(Tail(ds)) ELSE ds

(* mag > lim, both without leading zeros. *)
DigitsExceed(mag, lim) ==
  \/ Len(mag) > Len(lim)
  \/ /\ Len(mag) = Len(lim)
     /\ \E i \in 1 .. Len(mag) :
          /\ mag[i] > lim[i]
          /\ \A j \in 1 .. (i - 1) : mag[j] = lim[j]

(* A parse that takes the empty run for 0. *)
parse_i64_empty_zero(run) ==
  IF run = <<>> THEN [ok |-> TRUE, val |-> I64(FALSE, <<0>>)]
  ELSE IF run[1] \in {PLUS, MINUS} /\ Len(run) = 1 THEN [ok |-> FALSE]
  ELSE LET signed == run[1] \in {PLUS, MINUS}
           neg == run[1] = MINUS
           body == IF signed THEN Tail(run) ELSE run
       IN  IF \E i \in 1 .. Len(body) : body[i] \notin Digits THEN [ok |-> FALSE]
           ELSE LET mag == StripZeros([i \in 1 .. Len(body) |-> body[i] - ZERO])
                IN  IF DigitsExceed(mag, IF neg THEN I64MinDigits ELSE I64MaxDigits)
                    THEN [ok |-> FALSE]
                    ELSE [ok |-> TRUE, val |-> I64(neg /\ mag # <<0>>, mag)]

parse_i64(run) ==
  IF run = <<>> THEN [ok |-> FALSE]
  ELSE IF run[1] \in {PLUS, MINUS} /\ Len(run) = 1 THEN [ok |-> FALSE]
  ELSE LET signed == run[1] \in {PLUS, MINUS}
           neg == run[1] = MINUS
           body == IF signed THEN Tail(run) ELSE run
       IN  IF \E i \in 1 .. Len(body) : body[i] \notin Digits THEN [ok |-> FALSE]
           ELSE LET mag == StripZeros([i \in 1 .. Len(body) |-> body[i] - ZERO])
                IN  IF DigitsExceed(mag, IF neg THEN I64MinDigits ELSE I64MaxDigits)
                    THEN [ok |-> FALSE]
                    ELSE [ok |-> TRUE, val |-> I64(neg /\ mag # <<0>>, mag)]

RECURSIVE ToNat(_)
ToNat(ds) == IF ds = <<>> THEN 0 ELSE 10 * ToNat(SubSeq(ds, 1, Len(ds) - 1)) + ds[Len(ds)]

(* A range over the length cast to an unsigned count. *)
RangeHasNextUnsigned(i, length) ==
  length.neg \/ Len(length.mag) > 9 \/ i < ToNat(length.mag)

(* `for _ in 0..length`: whether the range has an element after i taken. *)
RangeHasNext(i, length) ==
  /\ ~length.neg
  /\ (Len(length.mag) > 9 \/ i < ToNat(length.mag))

-----------------------------------------------------------------------------
(* The call stack. *)

Top(stk) == stk[Len(stk)]
Pop(stk) == SubSeq(stk, 1, Len(stk) - 1)
Push(stk, f) == Append(stk, f)

Running(p, stk) == [pos |-> p, stack |-> stk, result |-> NoResult]
Finished(p, r) == [pos |-> p, stack |-> <<>>, result |-> r]

(* A parse_array that gives up at a failed element and returns the        *)
(* elements it has.                                                        *)
ThrowKeepsElements(p, stk, e) ==
  IF \E i \in 1 .. Len(stk) : stk[i].fn = "parse_array" /\ stk[i].pc = "parse"
  THEN LET i == CHOOSE j \in 1 .. Len(stk) :
                  /\ stk[j].fn = "parse_array" /\ stk[j].pc = "parse"
                  /\ \A k \in 1 .. (j - 1) : stk[k].fn # "parse_array"
       IN  Finished(p, Ok(VArray(stk[i].result)))
  ELSE Finished(p, Err(e))

(* The `?` of every caller on the stack stk: the error e ends the call. *)
Throw(p, stk, e) == Finished(p, Err(e))

(* A peek_byte that reports the end of the source as a malformed value. *)
peek_byte_end_invalid(s, p) ==
  IF p < Len(s)
  THEN [ok |-> TRUE, byte |-> s[p + 1], pos |-> p + 1]
  ELSE [ok |-> FALSE, err |-> InvalidValue("Integer does not end with \\r\\n", <<>>),
        pos |-> p]

(* A peek_byte that looks at the next byte and leaves it in the source. *)
peek_byte_in_place(s, p) ==
  IF p < Len(s)
  THEN [ok |-> TRUE, byte |-> s[p + 1], pos |-> p]
  ELSE [ok |-> FALSE, err |-> EndOfStream, pos |-> p]

(* Read for &[u8] behind peek_byte: one byte, or no byte at the end. *)
peek_byte(s, p) ==
  IF p < Len(s)
  THEN [ok |-> TRUE, byte |-> s[p + 1], pos |-> p + 1]
  ELSE [ok |-> FALSE, err |-> EndOfStream, pos |-> p]

(* The arms of parse: the variant each routine's result is wrapped in. *)
parse_wrap(pc, ret) ==
  CASE pc = "parse_string" -> VString(ret)
    [] pc = "parse_error" -> VString(ret)
    [] pc = "parse_integer" -> VInteger(ret)
    [] pc = "parse_bulk" -> VBulkString(ret)
    [] pc = "parse_array" -> VArray(ret)

(* parse_string after check_ending returned. *)
parse_string_end(f) ==
  IF from_utf8(f.result)
  THEN Ok(f.result)
  ELSE Err(InvalidValue("Non UTF-8 integer encoding", <<>>))

(* parse_integer after check_ending returned. *)
parse_integer_end(f) ==
  IF ~from_utf8(f.result)
  THEN Err(InvalidValue("Non UTF-8 integer encoding", <<>>))
  ELSE LET n == parse_i64(f.result)
       IN  IF n.ok THEN Ok(n.val)
           ELSE Err(InvalidValue("Can't parse as integer", f.result))

(* parse_bulk at the head of its for loop, i bytes taken. *)
parse_bulk_loop(length, resutt) ==
  [fn |-> "parse_bulk",
   pc |-> IF RangeHasNext(Len(resutt), length) THEN "payload" ELSE "terminator",
   length |-> length, resutt |-> resutt]

(* A parse_array that puts each element before the ones it has. *)
parse_array_loop_prepend(f, ret) ==
  IF f.pc = "parse_integer"
  THEN [fn |-> "parse_array", pc |-> "parse", length |-> ret, result |-> <<>>]
  ELSE [f EXCEPT !.result = <<ret>> \o f.result]

(* parse_array's frame when parse_integer returned the length ret, or     *)
(* parse returned the element ret.                                         *)
parse_array_loop(f, ret) ==
  IF f.pc = "parse_integer"
  THEN [fn |-> "parse_array", pc |-> "parse", length |-> ret, result |-> <<>>]
  ELSE [f EXCEPT !.result = Append(f.result, ret)]

(* A callee returns ret to the frame on top of stk: the code between that  *)
(* return and the next peek_byte, or the end of the call.                  *)
RECURSIVE Return(_, _, _)
Return(p, stk, ret) ==
  IF stk = <<>> THEN Finished(p, Ok(ret))
  ELSE LET f == Top(stk)
           callers == Pop(stk)
       IN  CASE f.fn = "parse" -> Return(p, callers, parse_wrap(f.pc, ret))
             [] f.fn = "parse_error" -> Return(p, callers, ret)
             [] f.fn = "parse_string" ->
                  LET r == parse_string_end(f)
                  IN  IF r.tag = "Ok" THEN Return(p, callers, r.val) ELSE Throw(p, stk, r.err)
             [] f.fn = "parse_integer" ->
                  LET r == parse_integer_end(f)
                  IN  IF r.tag = "Ok" THEN Return(p, callers, r.val) ELSE Throw(p, stk, r.err)
             [] f.fn = "parse_bulk" /\ f.pc = "parse_integer" ->
                  Running(p, Push(callers, parse_bulk_loop(ret, <<>>)))
             [] f.fn = "parse_bulk" /\ f.pc = "check_ending" ->
                  Return(p, callers, f.resutt)
             [] f.fn = "parse_array" ->
                  LET g == parse_array_loop(f, ret)
                  IN  IF RangeHasNext(Len(g.result), g.length)
                      THEN Running(p, Push(Push(callers, g),
                                           [fn |-> "parse", pc |-> "peek_byte"]))
                      ELSE Return(p, callers, g.result)

-----------------------------------------------------------------------------
(* One peek_byte in each routine, c the configuration [pos, stack, result]. *)

(* check_ending that also takes the byte after the LF when there is one. *)
check_ending_greedy(s, c) ==
  LET r == peek_byte(s, c.pos)
      q == IF r.pos < Len(s) THEN r.pos + 1 ELSE r.pos
  IN  IF ~r.ok THEN Throw(r.pos, c.stack, r.err)
      ELSE IF r.byte # LF
      THEN Throw(r.pos, c.stack, InvalidValue("Integer does not end with \\r\\n", <<>>))
      ELSE Return(q, Pop(c.stack), <<>>)

check_ending(s, c) ==
  LET r == peek_byte(s, c.pos)
  IN  IF ~r.ok THEN Throw(r.pos, c.stack, r.err)
      ELSE IF r.byte # LF
      THEN Throw(r.pos, c.stack, InvalidValue("Integer does not end with \\r\\n", <<>>))
      ELSE Return(r.pos, Pop(c.stack), <<>>)

CheckEndingFrame == [fn |-> "check_ending", pc |-> "peek_byte"]

(* A parse_string without the arm for LF, like parse_integer's loop. *)
parse_string_takes_lf(s, c) ==
  LET r == peek_byte(s, c.pos)
      f == Top(c.stack)
  IN  IF ~r.ok THEN Throw(r.pos, c.stack, r.err)
      ELSE IF r.byte = CR
      THEN Running(r.pos, Push(Push(Pop(c.stack), [f EXCEPT !.pc = "check_ending"]),
                               CheckEndingFrame))
      ELSE Running(r.pos, Push(Pop(c.stack),
                               [f EXCEPT !.result = Append(f.result, r.byte)]))

parse_string(s, c) ==
  LET r == peek_byte(s, c.pos)
      f == Top(c.stack)
  IN  IF ~r.ok THEN Throw(r.pos, c.stack, r.err)
      ELSE CASE r.byte = CR ->
                  Running(r.pos, Push(Push(Pop(c.stack), [f EXCEPT !.pc = "check_ending"]),
                                      CheckEndingFrame))
             [] r.byte = LF ->
                  Throw(r.pos, c.stack, InvalidValue("String contain \\n", <<>>))
             [] OTHER ->
                  Running(r.pos, Push(Pop(c.stack),
                                      [f EXCEPT !.result = Append(f.result, r.byte)]))

parse_integer(s, c) ==
  LET r == peek_byte(s, c.pos)
      f == Top(c.stack)
  IN  IF ~r.ok THEN Throw(r.pos, c.stack, r.err)
      ELSE IF r.byte = CR
      THEN Running(r.pos, Push(Push(Pop(c.stack), [f EXCEPT !.pc = "check_ending"]),
                               CheckEndingFrame))
      ELSE Running(r.pos, Push(Pop(c.stack),
                               [f EXCEPT !.result = Append(f.result, r.byte)]))

(* parse_bulk that ends its payload at a CR, as the line routines do. *)
parse_bulk_payload_line(s, c) ==
  LET r == peek_byte(s, c.pos)
      f == Top(c.stack)
  IN  IF ~r.ok THEN Throw(r.pos, c.stack, r.err)
      ELSE IF r.byte = CR
      THEN Running(r.pos, Push(Push(Pop(c.stack), [f EXCEPT !.pc = "check_ending"]),
                               [fn |-> "check_ending", pc |-> "peek_byte"]))
      ELSE Running(r.pos, Push(Pop(c.stack),
                               parse_bulk_loop(f.length, Append(f.resutt, r.byte))))

parse_bulk_payload(s, c) ==
  LET r == peek_byte(s, c.pos)
      f == Top(c.stack)
  IN  IF ~r.ok THEN Throw(r.pos, c.stack, r.err)
      ELSE Running(r.pos, Push(Pop(c.stack),
                               parse_bulk_loop(f.length, Append(f.resutt, r.byte))))

parse_bulk_terminator(s, c) ==
  LET r == peek_byte(s, c.pos)
      f == Top(c.stack)
  IN  IF ~r.ok THEN Throw(r.pos, c.stack, r.err)
      ELSE IF r.byte # CR
      THEN Throw(r.pos, c.stack, InvalidValue("Integer does not end with \\r\\n", <<>>))
      ELSE Running(r.pos, Push(Push(Pop(c.stack), [f EXCEPT !.pc = "check_ending"]),
                               CheckEndingFrame))

StringFrame == [fn |-> "parse_string", pc |-> "peek_byte", result |-> <<>>]
IntegerFrame == [fn |-> "parse_integer", pc |-> "peek_byte", result |-> <<>>]

parse(s, c) ==
  LET r == peek_byte(s, c.pos)
      callers == Pop(c.stack)
      Await(pc) == Push(callers, [fn |-> "parse", pc |-> pc])
      Call(fn) == [fn |-> fn, pc |-> "parse_integer"]
  IN  IF ~r.ok THEN Throw(r.pos, c.stack, r.err)
      ELSE CASE r.byte = PLUS ->
                  Running(r.pos, Push(Await("parse_string"), StringFrame))
             [] r.byte = MINUS ->
                  Running(r.pos, Push(Push(Await("parse_error"),
                                           [fn |-> "parse_error", pc |-> "parse_string"]),
                                      StringFrame))
             [] r.byte = COLON ->
                  Running(r.pos, Push(Await("parse_integer"), IntegerFrame))
             [] r.byte = DOLLAR ->
                  Running(r.pos, Push(Push(Await("parse_bulk"), Call("parse_bulk")),
                                      IntegerFrame))
             [] r.byte = STAR ->
                  Running(r.pos, Push(Push(Await("parse_array"), Call("parse_array")),
                                      IntegerFrame))
             [] OTHER ->
                  Throw(r.pos, c.stack, InvalidValue("Invalid character", r.byte))

(* Deserialer::new(stream) and the call d.parse(). *)
Deserialer == Running(0, <<[fn |-> "parse", pc |-> "peek_byte"]>>)

(* The routine whose peek_byte is next. *)
Step(s, c) ==
  LET f == Top(c.stack)
  IN  CASE f.fn = "parse" -> parse(s, c)
        [] f.fn = "parse_string" -> parse_string(s, c)
        [] f.fn = "parse_integer" -> parse_integer(s, c)
        [] f.fn = "check_ending" -> check_ending(s, c)
        [] f.fn = "parse_bulk" /\ f.pc = "payload" -> parse_bulk_payload(s, c)
        [] f.fn = "parse_bulk" /\ f.pc = "terminator" -> parse_bulk_terminator(s, c)

(* d.parse() run to its end on a source that holds the bytes s. *)
RECURSIVE Run(_, _)
Run(s, c) == IF c.result.tag # "none" THEN c ELSE Run(s, Step(s, c))

Decode(s) == Run(s, Deserialer)

-----------------------------------------------------------------------------
(* The sources the decoder is run on. *)

MaxLen == 3
MaxNodes == 3
MaxBulk == 2
MaxRun == 2

SeqsUpTo(S, n) == UNION {[1 .. k -> S] : k \in 0 .. n}

Prefixes(s) == {SubSeq(s, 1, k) : k \in 0 .. Len(s)}

RECURSIVE Concat(_)
Concat(ss) == IF ss = <<>> THEN <<>> ELSE ss[1] \o Concat(Tail(ss))

RECURSIVE Decimal(_)
Decimal(n) == IF n < 10 THEN <<ZERO + n>> ELSE Decimal(n \div 10) \o <<ZERO + (n % 10)>>

CRLF == <<CR, LF>>

(* Every byte the decoder tells apart, a letter and a byte no UTF-8 text holds. *)
Bytes == {PLUS, MINUS, COLON, DOLLAR, STAR, CR, LF, ZERO, ZERO + 1, 97, 255}

(* Wire messages as the tests write them. *)
SimpleString(t) == <<PLUS>> \o t \o CRLF
SimpleError(t) == <<MINUS>> \o t \o CRLF
IntegerMsg(run) == <<COLON>> \o run \o CRLF
BulkMsg(p) == <<DOLLAR>> \o Decimal(Len(p)) \o CRLF \o p \o CRLF
ArrayMsg(ms) == <<STAR>> \o Decimal(Len(ms)) \o CRLF \o Concat(ms)

(* "+OK", ":-12", the bulk string "\r\n"; and elements that fail: "+\n",   *)
(* the unknown tag "a".                                                    *)
GoodAtoms ==
  {SimpleString(<<79, 75>>), IntegerMsg(<<MINUS, ZERO + 1, ZERO + 2>>), BulkMsg(CRLF)}
BadAtoms == {<<PLUS, LF>>, <<97>>}

(* Messages of exactly k nodes (a scalar is one node, an array one more    *)
(* than its elements), and lists of messages of n nodes in all.            *)
RECURSIVE MsgsOfSize(_), ListsOfSize(_)
MsgsOfSize(k) ==
  (IF k = 1 THEN GoodAtoms \cup BadAtoms ELSE {}) \cup {ArrayMsg(l) : l \in ListsOfSize(k - 1)}
ListsOfSize(n) ==
  IF n = 0 THEN {<<>>}
  ELSE UNION {{<<m>> \o l : m \in MsgsOfSize(j), l \in ListsOfSize(n - j)} : j \in 1 .. n}

Messages == UNION {MsgsOfSize(k) : k \in 1 .. MaxNodes}

(* What may follow a message in the source: a byte, a CR LF, one more     *)
(* message.                                                                *)
Rests == {<<LF>>, <<PLUS>>, CRLF, SimpleString(<<79, 75>>)}

(* Runs of the decimal-integer routine: short ones over the bytes it can   *)
(* tell apart, and the ends of the i64 range.                              *)
RunBytes == {MINUS, PLUS, ZERO, ZERO + 1, 97, 32, LF}
AsRun(neg, ds) == (IF neg THEN <<MINUS>> ELSE <<>>) \o [i \in 1 .. Len(ds) |-> ZERO + ds[i]]
RangeRuns ==
  {AsRun(FALSE, I64MaxDigits), AsRun(FALSE, I64MinDigits),
   AsRun(TRUE, I64MinDigits), AsRun(TRUE, I64MinDigits \o <<0>>),
   AsRun(TRUE, <<9, 2, 2, 3, 3, 7, 2, 0, 3, 6, 8, 5, 4, 7, 7, 5, 8, 0, 9>>),
   <<PLUS>> \o AsRun(FALSE, I64MaxDigits),
   AsRun(FALSE, <<0, 0>> \o I64MaxDigits),
   AsRun(FALSE, <<1, 2, 3, 4, 5, 6, 7, 8, 9, 0>>), AsRun(TRUE, <<1, 2, 3, 4, 5, 6, 7, 8, 9, 0>>),
   AsRun(FALSE, <<8, 1, 2, 2>>)}
Runs == SeqsUpTo(RunBytes, MaxRun) \cup RangeRuns
RunEnds == {CRLF, <<CR>>, <<CR, 97>>}
RunInputs == {<<t>> \o run \o e : t \in {COLON, DOLLAR, STAR}, run \in Runs, e \in RunEnds}

(* Bulk strings of every payload, and what follows a declared length <= 0. *)
(* "ECHO", and ten bytes with line ends among them. *)
BulkSamples == {<<69, 67, 72, 79>>, <<CR, LF, 97, CR, CR, LF, LF, 97, CR, LF>>}
BulkInputs == {BulkMsg(p) : p \in SeqsUpTo(Bytes, MaxBulk) \cup BulkSamples}
NonPositiveRuns ==
  {<<ZERO>>, <<MINUS, ZERO>>, <<PLUS, ZERO>>, <<MINUS, ZERO + 1>>, <<MINUS, ZERO + 2>>,
   AsRun(TRUE, I64MinDigits)}
BulkTails == SeqsUpTo({CR, LF, 97}, 3)
NonPositiveBulkInputs ==
  {<<DOLLAR>> \o run \o CRLF \o t : run \in NonPositiveRuns, t \in BulkTails}

(* Texts: "", "OK", two- and three-byte characters, and ill-formed UTF-8. *)
Texts ==
  {<<>>, <<79, 75>>, <<195, 169>>, <<226, 130, 172>>, <<195>>, <<255>>,
   <<192, 128>>, <<237, 160, 128>>}
TextInputs == {<<t>> \o x \o CRLF : t \in {PLUS, MINUS}, x \in Texts}

Inputs ==
  SeqsUpTo(Bytes, MaxLen)
    \cup UNION {Prefixes(m) : m \in Messages}
    \cup {m \o r : m \in Messages, r \in Rests}
    \cup RunInputs \cup BulkInputs \cup NonPositiveBulkInputs \cup TextInputs

-----------------------------------------------------------------------------
(* The state machine. *)

Cfg == [pos |-> pos, stack |-> stack, result |-> result]

Apply(c) ==
  /\ pos' = c.pos
  /\ stack' = c.stack
  /\ result' = c.result

Init ==
  /\ src \in Inputs
  /\ entry = "none"
  /\ pos = 0
  /\ stack = <<>>
  /\ result = NoResult

Enter(name) ==
  /\ entry = "none"
  /\ entry' = name
  /\ Apply(Deserialer)
  /\ UNCHANGED src

from_stream == Enter("from_stream")

from_bytes == Enter("from_bytes")

(* data: &str is well-formed UTF-8. *)
from_string == entry = "none" /\ from_utf8(src) /\ Enter("from_string")

Awaits(fn, pc) ==
  /\ result = NoResult
  /\ stack # <<>>
  /\ Top(stack).fn = fn
  /\ Top(stack).pc = pc

ParseTag ==
  /\ Awaits("parse", "peek_byte")
  /\ Apply(parse(src, Cfg))
  /\ UNCHANGED <<src, entry>>

ParseString ==
  /\ Awaits("parse_string", "peek_byte")
  /\ Apply(parse_string(src, Cfg))
  /\ UNCHANGED <<src, entry>>

ParseInteger ==
  /\ Awaits("parse_integer", "peek_byte")
  /\ Apply(parse_integer(src, Cfg))
  /\ UNCHANGED <<src, entry>>

CheckEnding ==
  /\ Awaits("check_ending", "peek_byte")
  /\ Apply(check_ending(src, Cfg))
  /\ UNCHANGED <<src, entry>>

ParseBulkPayload ==
  /\ Awaits("parse_bulk", "payload")
  /\ Apply(parse_bulk_payload(src, Cfg))
  /\ UNCHANGED <<src, entry>>

ParseBulkTerminator ==
  /\ Awaits("parse_bulk", "terminator")
  /\ Apply(parse_bulk_terminator(src, Cfg))
  /\ UNCHANGED <<src, entry>>

(* A stream other than a byte slice may fail a read: peek_byte's map_err,  *)
(* and the `?` of every caller.                                            *)
PeekByteIoError ==
  /\ entry = "from_stream"
  /\ result = NoResult
  /\ Apply(Throw(pos, stack, IoError))
  /\ UNCHANGED <<src, entry>>

Next ==
  \/ from_stream
  \/ from_bytes
  \/ from_string
  \/ ParseTag
  \/ ParseString
  \/ ParseInteger
  \/ CheckEnding
  \/ ParseBulkPayload
  \/ ParseBulkTerminator
  \/ PeekByteIoError

Spec == Init /\ [][Next]_vars

Done == result # NoResult

-----------------------------------------------------------------------------
(* What the claims speak of. *)

(* The source never failed a read. *)
NoReadFailure == result # Err(IoError)

Take(s, k) == SubSeq(s, 1, k)
Drop(s, k) == SubSeq(s, k + 1, Len(s))

(* s is t followed by CR LF, t a text: UTF-8 without CR or LF. *)
IsTextLine(s) ==
  /\ Len(s) >= 2
  /\ Drop(s, Len(s) - 2) = CRLF
  /\ \A i \in 1 .. (Len(s) - 2) : s[i] \notin {CR, LF}
  /\ from_utf8(Take(s, Len(s) - 2))

(* C1: the decode of '-' t CR LF, t a well-formed text, returns Error(t),  *)
(* and a decode returns String(t) only when the tag is '+'.                *)
C1_ErrorTagYieldsError ==
  (Done /\ NoReadFailure /\ src # <<>> /\ IsTextLine(Tail(src))) =>
     LET t == SubSeq(src, 2, Len(src) - 2)
     IN  /\ src[1] = MINUS => result = Ok(VError(t))
         /\ result = Ok(VString(t)) => src[1] = PLUS

(* A complete message: its decode succeeds and takes every byte of it. *)
IsCompleteMessage(m) ==
  LET d == Decode(m) IN d.result.tag = "Ok" /\ d.pos = Len(m)

(* C2: when a prefix m of the source is a complete message, the byte after *)
(* m is never read (no read leaves the source one past a complete          *)
(* message), and the call returns the value of m with the source at        *)
(* Len(m), whatever follows m.                                             *)
C2_ReadsExactlyOneMessage ==
  entry # "none" =>
    /\ pos > 0 => ~IsCompleteMessage(Take(src, pos - 1))
    /\ (Done /\ NoReadFailure) =>
         \A k \in 0 .. Len(src) :
           IsCompleteMessage(Take(src, k)) =>
             (result = Decode(Take(src, k)).result /\ pos = k)

IsArrayOfArrays(v) ==
  /\ v.variant = "Array"
  /\ \E i \in 1 .. Len(v.payload) : v.payload[i].variant = "Array"

C2_Witness ==
  /\ Done
  /\ result.tag = "Ok"
  /\ IsArrayOfArrays(result.val)
  /\ pos < Len(src)

(* C3: the decode of '$' decimal(N) CR LF p CR LF, p any N bytes, returns  *)
(* BulkString(p).                                                          *)
C3_BulkStringIsByteExact ==
  (Done /\ NoReadFailure /\ src # <<>> /\ src[1] = DOLLAR) =>
    \A n \in 0 .. Len(src) :
      LET h == <<DOLLAR>> \o Decimal(n) \o CRLF
      IN  (Len(src) = Len(h) + n + 2 /\ Take(src, Len(h)) = h
             /\ Drop(src, Len(h) + n) = CRLF) =>
             /\ result = Ok(VBulkString(SubSeq(src, Len(h) + 1, Len(h) + n)))
             /\ pos = Len(src)

C3_Witness ==
  /\ Done
  /\ src = BulkMsg(<<LF, CR>>)
  /\ result = Ok(VBulkString(<<LF, CR>>))

(* The index of the first CR of s after its tag, 0 when it has none. *)
FirstCR(s) ==
  IF \E i \in 2 .. Len(s) : s[i] = CR
  THEN CHOOSE i \in 2 .. Len(s) : s[i] = CR /\ \A j \in 2 .. (i - 1) : s[j] # CR
  ELSE 0

(* s starts with '*' decimal(N) CR LF: [ok, n, len], len the header's length. *)
ArrayHeader(s) ==
  LET cr == FirstCR(s)
      run == SubSeq(s, 2, cr - 1)
      ds == [i \in 1 .. Len(run) |-> run[i] - ZERO]
  IN  IF /\ s # <<>> /\ s[1] = STAR
         /\ cr > 2 /\ cr < Len(s) /\ s[cr + 1] = LF
         /\ Len(run) <= 9
         /\ \A i \in 1 .. Len(run) : run[i] \in Digits
         /\ Decimal(ToNat(ds)) = run
      THEN [ok |-> TRUE, n |-> ToNat(ds), len |-> cr + 1]
      ELSE [ok |-> FALSE]

(* The n messages of s from offset off on, each decoded alone: their       *)
(* values and the offset after them, or the first one's failure and the    *)
(* offset where its decode stopped.                                        *)
RECURSIVE Elements(_, _, _)
Elements(s, off, n) ==
  IF n = 0 THEN [ok |-> TRUE, vals |-> <<>>, pos |-> off]
  ELSE LET d == Decode(Drop(s, off))
       IN  IF d.result.tag # "Ok"
           THEN [ok |-> FALSE, err |-> d.result.err, pos |-> off + d.pos]
           ELSE LET more == Elements(s, off + d.pos, n - 1)
                IN  IF more.ok
                    THEN [ok |-> TRUE, vals |-> <<d.result.val>> \o more.vals,
                          pos |-> more.pos]
                    ELSE more

(* C4: the decode of '*' decimal(N) CR LF m1 .. mN, each mi a complete     *)
(* message, returns Array([v1, .., vN]), vi the value the decode of mi     *)
(* alone returns, in read order.                                           *)
C4_ArrayCollectsElementsInOrder ==
  (Done /\ NoReadFailure /\ ArrayHeader(src).ok) =>
    LET h == ArrayHeader(src)
        els == Elements(src, h.len, h.n)
    IN  els.ok => (result = Ok(VArray(els.vals)) /\ pos = els.pos)

C4_Witness ==
  /\ Done
  /\ ArrayHeader(src).ok
  /\ result.tag = "Ok"
  /\ Len(result.val.payload) = 2
  /\ result.val.payload[1].variant = "Array"
  /\ result.val.payload[2].variant = "String"

(* C8: when the decode of an element of an array fails with e, the call    *)
(* returns e and no value, and the source stays where that element's       *)
(* decode stopped.                                                         *)
C8_FirstFailureEndsTheCall ==
  (Done /\ NoReadFailure /\ ArrayHeader(src).ok) =>
    LET h == ArrayHeader(src)
        els == Elements(src, h.len, h.n)
    IN  ~els.ok => (result = Err(els.err) /\ pos = els.pos /\ stack = <<>>)

(* An InvalidValue two arrays deep, with unread bytes after it. *)
C8_Witness ==
  /\ Done
  /\ ArrayHeader(src).ok
  /\ ArrayHeader(Drop(src, ArrayHeader(src).len)).ok
  /\ result.tag = "Err"
  /\ result.err.kind = "InvalidValue"
  /\ pos > ArrayHeader(src).len + ArrayHeader(Drop(src, ArrayHeader(src).len)).len
  /\ pos < Len(src)

IsInvalidValue(r) == r.tag = "Err" /\ r.err.kind = "InvalidValue"

(* The complete messages among the sources, and their strict prefixes. *)
CompleteInputs == {m \in Inputs : IsCompleteMessage(m)}
TruncatedInputs == UNION {Prefixes(m) \ {m} : m \in CompleteInputs}

(* C5: the decode of a strict prefix of a complete message fails with      *)
(* EndOfStream, from every entry point; so do the empty source and         *)
(* ":8122\r".                                                              *)
C5_TruncationIsEndOfStream ==
  /\ (Done /\ result.tag = "Ok" /\ pos = Len(src)) =>
        \A k \in 0 .. (Len(src) - 1) : Decode(Take(src, k)).result = Err(EndOfStream)
  /\ (Done /\ NoReadFailure /\ src \in TruncatedInputs) => result = Err(EndOfStream)
  /\ (Done /\ NoReadFailure
        /\ src \in {<<>>, <<COLON, ZERO + 8, ZERO + 1, ZERO + 2, ZERO + 2, CR>>})
       => result = Err(EndOfStream)

(* A message cut inside an element of an array, given as a &str. *)
C5_Witness ==
  /\ Done
  /\ entry = "from_string"
  /\ src \in TruncatedInputs
  /\ ArrayHeader(src).ok
  /\ Len(src) > ArrayHeader(src).len + 1
  /\ result = Err(EndOfStream)

(* The index of the first CR or LF of s after its tag, 0 when it has none. *)
FirstBreak(s) ==
  IF \E i \in 2 .. Len(s) : s[i] \in {CR, LF}
  THEN CHOOSE i \in 2 .. Len(s) : s[i] \in {CR, LF} /\ \A j \in 2 .. (i - 1) : s[j] \notin {CR, LF}
  ELSE 0

RECURSIVE NoBreakInTexts(_)
NoBreakInTexts(v) ==
  CASE v.variant \in {"String", "Error"} ->
         \A i \in 1 .. Len(v.payload) : v.payload[i] \notin {CR, LF}
    [] v.variant = "Array" ->
         \A i \in 1 .. Len(v.payload) : NoBreakInTexts(v.payload[i])
    [] OTHER -> TRUE

(* C7: a decode of '+' or '-' succeeds only when the first CR or LF after  *)
(* the tag is a CR with an LF right after it, and returns the bytes before *)
(* that CR; an LF first, or a CR followed by another byte, is an           *)
(* InvalidValue; no text of a returned value holds a CR or an LF.          *)
C7_ScalarStringTerminator ==
  /\ (Done /\ NoReadFailure /\ src # <<>> /\ src[1] \in {PLUS, MINUS}) =>
       LET i == FirstBreak(src)
       IN  /\ result.tag = "Ok" =>
                /\ i > 0 /\ src[i] = CR /\ i < Len(src) /\ src[i + 1] = LF
                /\ result.val.variant \in {"String", "Error"}
                /\ result.val.payload = SubSeq(src, 2, i - 1)
                /\ pos = i + 1
           /\ (i > 0 /\ src[i] = LF) => IsInvalidValue(result)
           /\ (i > 0 /\ src[i] = CR /\ i < Len(src) /\ src[i + 1] # LF) =>
                IsInvalidValue(result)
  /\ (Done /\ result.tag = "Ok") => NoBreakInTexts(result.val)

C7_Witness ==
  /\ Done
  /\ src # <<>>
  /\ src[1] = MINUS
  /\ FirstBreak(src) > 2
  /\ src[FirstBreak(src)] = LF
  /\ IsInvalidValue(result)

(* Decimal runs as the claims describe them: an optional sign out of signs *)
(* and one or more digits; the digits from the first that is not 0 on; and *)
(* whether they denote a number of the i64 range.                          *)
RunBody(run, signs) ==
  IF run # <<>> /\ run[1] \in signs THEN Tail(run) ELSE run

IsDecimalRun(run, signs) ==
  /\ RunBody(run, signs) # <<>>
  /\ \A i \in 1 .. Len(RunBody(run, signs)) : RunBody(run, signs)[i] \in Digits

Significant(run, signs) ==
  LET b == RunBody(run, signs)
      nz == {i \in 1 .. Len(b) : b[i] # ZERO}
      first == IF nz = {} THEN Len(b) ELSE CHOOSE i \in nz : \A j \in nz : i <= j
  IN  [i \in 1 .. (Len(b) - first + 1) |-> b[first + i - 1] - ZERO]

AtMost(mag, lim) ==
  \/ Len(mag) < Len(lim)
  \/ mag = lim
  \/ /\ Len(mag) = Len(lim)
     /\ \E i \in 1 .. Len(mag) :
          /\ mag[i] < lim[i]
          /\ SubSeq(mag, 1, i - 1) = SubSeq(lim, 1, i - 1)

IsMinus(run) == run # <<>> /\ run[1] = MINUS

DenotesI64(run, signs) ==
  /\ IsDecimalRun(run, signs)
  /\ AtMost(Significant(run, signs), IF IsMinus(run) THEN I64MinDigits ELSE I64MaxDigits)

Denoted(run, signs) ==
  [neg |-> IsMinus(run) /\ Significant(run, signs) # <<0>>, mag |-> Significant(run, signs)]

IsNonPositive(run, signs) ==
  DenotesI64(run, signs) /\ (IsMinus(run) \/ Significant(run, signs) = <<0>>)

(* The decoder has just read the first CR of a source that starts with     *)
(* ':', '$' or '*': the decimal-integer routine holds the run before it.   *)
AtRunEnd ==
  /\ entry # "none"
  /\ result = NoResult
  /\ src # <<>>
  /\ src[1] \in {COLON, DOLLAR, STAR}
  /\ pos >= 2
  /\ pos = FirstCR(src)

(* What the next read of the decimal-integer routine leads to, the signs   *)
(* a run may start with given: n returned to the caller (the Integer, the  *)
(* bulk routine's length, the array routine's count), or the failure.      *)
RunOutcome(signs) ==
  LET run == SubSeq(src, 2, pos - 1)
      n == Denoted(run, signs)
  IN  IF pos = Len(src) THEN result' = Err(EndOfStream)
      ELSE IF src[pos + 1] # LF \/ ~DenotesI64(run, signs)
      THEN IsInvalidValue(result') /\ pos' = pos + 1
      ELSE CASE src[1] = COLON -> result' = Ok(VInteger(n))
             [] src[1] = DOLLAR ->
                  /\ result' = NoResult
                  /\ Top(stack').fn = "parse_bulk"
                  /\ Top(stack').length = n
                  /\ Top(stack').resutt = <<>>
             [] src[1] = STAR ->
                  IF n.neg \/ n.mag = <<0>>
                  THEN result' = Ok(VArray(<<>>))
                  ELSE /\ result' = NoResult
                       /\ Len(stack') = 3
                       /\ stack'[2].fn = "parse_array"
                       /\ stack'[2].length = n
                       /\ stack'[2].result = <<>>

(* C6 as amended: the decimal-integer routine returns n exactly when the   *)
(* run before the first CR is an optional '-' or '+' and one or more       *)
(* digits that denote n in the i64 range, and an LF follows the CR; every  *)
(* other run that CR LF ends is an InvalidValue.                           *)
C6_IntegerRoutineAcceptsSignedDecimal ==
  [][(AtRunEnd /\ result' # Err(IoError)) => RunOutcome({MINUS, PLUS})]_vars

(* C6 as claimed: the only sign is '-', a '+' makes the run invalid. *)
C6_IntegerRoutineAcceptsOnlyMinus ==
  [][(AtRunEnd /\ result' # Err(IoError)) => RunOutcome({MINUS})]_vars

C6_Witness ==
  /\ Done
  /\ src = IntegerMsg(<<PLUS, ZERO + 1>>)
  /\ result = Ok(VInteger(I64(FALSE, <<1>>)))

(* C9: after '$' and a run that denotes N <= 0, the bulk routine takes no  *)
(* payload: the next two bytes must be CR LF, and the value is the empty   *)
(* BulkString.                                                             *)
C9_NonPositiveBulkLengthReadsNothing ==
  (Done /\ NoReadFailure /\ src # <<>> /\ src[1] = DOLLAR
     /\ FirstCR(src) > 0 /\ FirstCR(src) < Len(src) /\ src[FirstCR(src) + 1] = LF
     /\ IsNonPositive(SubSeq(src, 2, FirstCR(src) - 1), {MINUS, PLUS})) =>
    LET h == FirstCR(src) + 1
        tail == Drop(src, h)
    IN  CASE tail = <<>> -> result = Err(EndOfStream) /\ pos = h
          [] tail # <<>> /\ tail[1] # CR -> IsInvalidValue(result) /\ pos = h + 1
          [] tail = <<CR>> -> result = Err(EndOfStream) /\ pos = h + 1
          [] Len(tail) >= 2 /\ tail[1] = CR /\ tail[2] # LF ->
               IsInvalidValue(result) /\ pos = h + 2
          [] OTHER -> result = Ok(VBulkString(<<>>)) /\ pos = h + 2

C9_Witness ==
  /\ Done
  /\ src = <<DOLLAR, MINUS, ZERO + 1>> \o CRLF \o CRLF
  /\ result = Ok(VBulkString(<<>>))
  /\ pos = Len(src)

(* C10: a call on a finite source ends.  Until it has ended a step is     *)
(* always possible, each step of a call takes one more byte of the source  *)
(* or ends the call, and the position never decreases and never passes the *)
(* end of the source: a call makes at most Len(src) + 1 steps.             *)
C10_DecodeTerminates ==
  /\ [](pos <= Len(src))
  /\ [](Done \/ ENABLED Next)
  /\ [][/\ pos' >= pos
        /\ entry # "none" => (pos' = pos + 1 \/ Done')
        /\ Done => UNCHANGED vars]_vars

(* A call that ended having read every byte of an array of arrays. *)
C10_Witness ==
  /\ Done
  /\ NoReadFailure
  /\ pos = Len(src)
  /\ result.tag = "Ok"
  /\ IsArrayOfArrays(result.val)

====
